---- MODULE Spec2Model ----
(***************************************************************************)
(* Redux To-Do (src/REDUXCHECPOINT.jsx): the tasks slice, the store with   *)
(* its localStorage subscriber, start-up rehydration and the derived       *)
(* filtered list.                                                          *)
(*                                                                         *)
(* A JavaScript string is a sequence of characters, so that trim() is      *)
(* computed and not assumed.  A task id is an element of Ids; nanoid() is  *)
(* a draw among the ids it has not handed out yet.  The text kept in       *)
(* localStorage is modelled by its JSON syntax tree: an object is the      *)
(* sequence of its <<key, value>> members in the order they are written.   *)
(***************************************************************************)
EXTENDS Integers, Sequences, FiniteSets

VARIABLES
    state,      \* store.getState(): [tasks |-> [items |-> ..., filter |-> ...]]
    storage,    \* localStorage entry "redux_todo_state"
    generated,  \* the ids nanoid() has returned so far
    rendered,   \* the list ListTask rendered last
    last,       \* the action dispatched last, with its arguments
    added,      \* the ids of the tasks added, oldest first
    thrown,     \* the exception the last step let escape, "" when none
    failedWrites \* how many times setItem threw for lack of room

vars == <<state, storage, generated, rendered, last, added, thrown, failedWrites>>

----------------------------------------------------------------------------
(* Bounds *)

MaxItems == 2   \* longest task list
MaxIds == 2     \* size of the id space nanoid() draws from
MaxFailedWrites == 1  \* most writes that fail for lack of room

Whitespace == {" "}

(* The texts handed to addTask and editTask: empty, blank, plain, and with  *)
(* whitespace on both sides.                                                *)
Texts == {<<>>, <<" ", " ">>, <<"a">>, <<" ", "a", " ">>, <<"b">>}
Ids == 1..MaxIds
FilterValues == {"all", "done", "not"}

----------------------------------------------------------------------------
(* String.prototype.trim *)

RECURSIVE trimStart(_)
trimStart(s) ==
    IF s # <<>> /\ Head(s) \in Whitespace THEN trimStart(Tail(s)) ELSE s

RECURSIVE trimEnd(_)
trimEnd(s) ==
    IF s # <<>> /\ s[Len(s)] \in Whitespace
    THEN trimEnd(SubSeq(s, 1, Len(s) - 1))
    ELSE s

trim(s) == trimEnd(trimStart(s))

(* Array.prototype.find: the index of the first element with that id, 0    *)
(* when there is none.                                                     *)
find(arr, id) ==
    LET hits == {i \in 1..Len(arr) : arr[i].id = id}
    IN  IF hits = {} THEN 0 ELSE CHOOSE i \in hits : \A j \in hits : i <= j

(* Array.prototype.filter; keep[i] is the callback's result on arr[i]. *)
Array_filter(arr, keep) ==
    LET F[i \in 0..Len(arr)] ==
            IF i = 0 THEN <<>>
            ELSE IF keep[i] THEN Append(F[i - 1], arr[i]) ELSE F[i - 1]
    IN  F[Len(arr)]

----------------------------------------------------------------------------
(* JSON.stringify / JSON.parse *)

stringifyTask(t) ==
    << <<"id", t.id>>, <<"description", t.description>>, <<"isDone", t.isDone>> >>

stringifyTasks(s) ==
    (IF "items" \in DOMAIN s
     THEN << <<"items", [i \in 1..Len(s.items) |-> stringifyTask(s.items[i])]>> >>
     ELSE <<>>)
    \o
    (IF "filter" \in DOMAIN s THEN << <<"filter", s.filter>> >> ELSE <<>>)

JSON_stringify(st) ==
    IF "tasks" \in DOMAIN st
    THEN << <<"tasks", stringifyTasks(st.tasks)>> >>
    ELSE <<>>

Keys(members) == {members[i][1] : i \in 1..Len(members)}

(* The value of key k: the last member with that key wins. *)
Member(members, k) ==
    LET at == {i \in 1..Len(members) : members[i][1] = k}
    IN  members[CHOOSE i \in at : \A j \in at : j <= i][2]

parseObject(members) == [k \in Keys(members) |-> Member(members, k)]

parseTasks(members) ==
    [k \in Keys(members) |->
        IF k = "items"
        THEN LET arr == Member(members, k)
             IN  [i \in 1..Len(arr) |-> parseObject(arr[i])]
        ELSE Member(members, k)]

JSON_parse(doc) ==
    [k \in Keys(doc) |->
        IF k = "tasks" THEN parseTasks(Member(doc, k)) ELSE Member(doc, k)]

----------------------------------------------------------------------------
(* Start-up *)

(* The localStorage entry: absent (getItem returns null), a JSON text, a    *)
(* text that is not JSON, or a storage whose every access throws.          *)
NoItem == [kind |-> "null"]
Item(doc) == [kind |-> "text", doc |-> doc]
Malformed == [kind |-> "malformed"]
Denied == [kind |-> "denied"]

Undefined == [defined |-> FALSE]
Defined(v) == [defined |-> TRUE, value |-> v]

(* getItem asks for another key than setItem writes *)
persisted_other_key(raw) == Undefined

persisted(raw) ==
    IF raw.kind = "denied" THEN Undefined            \* getItem throws: catch
    ELSE IF raw.kind = "null" THEN Undefined         \* raw is falsy
    ELSE IF raw.kind = "malformed" THEN Undefined    \* JSON.parse throws: catch
    ELSE Defined(JSON_parse(raw.doc))

hasTasks(p) == p.defined /\ "tasks" \in DOMAIN p.value

(* the filter's fallback forgotten *)
initialState_no_fallback(p) ==
    IF hasTasks(p) /\ "filter" \in DOMAIN p.value.tasks
    THEN [items  |-> IF "items" \in DOMAIN p.value.tasks
                     THEN p.value.tasks.items ELSE <<>>,
          filter |-> p.value.tasks.filter]
    ELSE [items  |-> IF hasTasks(p) /\ "items" \in DOMAIN p.value.tasks
                     THEN p.value.tasks.items ELSE <<>>]

initialState(p) ==
    [items  |-> IF hasTasks(p) /\ "items" \in DOMAIN p.value.tasks
                THEN p.value.tasks.items ELSE <<>>,
     filter |-> IF hasTasks(p) /\ "filter" \in DOMAIN p.value.tasks
                              /\ p.value.tasks.filter # ""
                THEN p.value.tasks.filter ELSE "all"]

configureStore(p) ==
    IF hasTasks(p)
    THEN p.value
    ELSE [tasks |-> initialState(p)]

----------------------------------------------------------------------------
(* The slice's reducers, on the slice state s *)

(* obj[k] = v: the property is created when obj has none *)
assign(obj, k, v) ==
    [x \in DOMAIN obj \cup {k} |-> IF x = k THEN v ELSE obj[x]]

(* state.items.unshift / state.items.find throw a TypeError when the slice *)
(* state has no items (undefined or null).                                 *)
readsItems(type) == type \in {"addTask", "toggleDone", "editTask"}

reducerThrows(s, type) == readsItems(type) /\ "items" \notin DOMAIN s

(* nanoid() that may hand out an id a second time *)
nanoid_reused == Ids

nanoid == Ids \ generated

addTask_prepare(description, id) ==
    [payload |-> [id |-> id, description |-> trim(description), isDone |-> FALSE]]

(* push in place of unshift *)
addTask_reducer_push(s, action) ==
    [s EXCEPT !.items = Append(@, action.payload)]

addTask_reducer(s, action) ==
    [s EXCEPT !.items = <<action.payload>> \o @]

(* sets the flag in place of negating it *)
toggleDone_reducer_set(s, action) ==
    LET t == find(s.items, action.payload)
    IN  IF t # 0
        THEN [s EXCEPT !.items[t].isDone = TRUE]
        ELSE s

(* negates the flag of every task once the id is found *)
toggleDone_reducer_every(s, action) ==
    IF find(s.items, action.payload) # 0
    THEN [s EXCEPT !.items =
            [i \in 1..Len(s.items) |-> [s.items[i] EXCEPT !.isDone = ~@]]]
    ELSE s

toggleDone_reducer(s, action) ==
    LET t == find(s.items, action.payload)
    IN  IF t # 0
        THEN [s EXCEPT !.items[t].isDone = ~@]
        ELSE s

(* stores the description as typed *)
editTask_reducer_untrimmed(s, action) ==
    LET t == find(s.items, action.payload.id)
    IN  IF t # 0 /\ trim(action.payload.description) # <<>>
        THEN [s EXCEPT !.items[t].description = action.payload.description]
        ELSE s

(* moves the edited task to the front *)
editTask_reducer_to_front(s, action) ==
    LET t == find(s.items, action.payload.id)
        d == trim(action.payload.description)
    IN  IF t # 0 /\ d # <<>>
        THEN [s EXCEPT !.items =
                <<[s.items[t] EXCEPT !.description = d]>>
                \o SubSeq(s.items, 1, t - 1)
                \o SubSeq(s.items, t + 1, Len(s.items))]
        ELSE s

editTask_reducer(s, action) ==
    LET id == action.payload.id
        description == action.payload.description
        t == find(s.items, id)
    IN  IF t # 0 /\ trim(description) # <<>>
        THEN [s EXCEPT !.items[t].description = trim(description)]
        ELSE s

(* stores the action's type in place of its payload *)
setFilter_reducer_type(s, action) ==
    [s EXCEPT !.filter = "tasks/setFilter"]

(* returns a fresh slice state in place of changing the filter *)
setFilter_reducer_fresh(s, action) ==
    [items |-> <<>>, filter |-> action.payload]

setFilter_reducer(s, action) ==
    assign(s, "filter", action.payload)

(* resets the whole slice *)
clearAll_reducer_reset(s) ==
    [items |-> <<>>, filter |-> "all"]

clearAll_reducer(s) ==
    assign(s, "items", <<>>)

(* the two filters exchanged *)
filtered_swapped(items, filter) ==
    IF filter = "done"
    THEN Array_filter(items, [i \in 1..Len(items) |-> ~items[i].isDone])
    ELSE IF filter = "not"
    THEN Array_filter(items, [i \in 1..Len(items) |-> items[i].isDone])
    ELSE items

(* ListTask's derived list *)
filtered(items, filter) ==
    IF filter = "done"
    THEN Array_filter(items, [i \in 1..Len(items) |-> items[i].isDone])
    ELSE IF filter = "not"
    THEN Array_filter(items, [i \in 1..Len(items) |-> ~items[i].isDone])
    ELSE items

----------------------------------------------------------------------------
(* The store *)

Last(op, id, text, value) ==
    [op |-> op, id |-> id, text |-> text, value |-> value]

(* tasksSlice.reducer: the case reducer of the action's type *)
reducer(s, type, payload) ==
    IF type = "addTask" THEN addTask_reducer(s, [payload |-> payload])
    ELSE IF type = "toggleDone" THEN toggleDone_reducer(s, [payload |-> payload])
    ELSE IF type = "editTask" THEN editTask_reducer(s, [payload |-> payload])
    ELSE IF type = "setFilter" THEN setFilter_reducer(s, [payload |-> payload])
    ELSE IF type = "clearAll" THEN clearAll_reducer(s)
    ELSE s

(* setItem throws when there is no room or when the storage is denied. *)
setItemThrows(throws) == throws \/ storage.kind = "denied"

(* writes the state the listener was created with *)
subscribe_stale(st, throws) ==
    /\ storage' = IF setItemThrows(throws) THEN storage
                  ELSE Item(JSON_stringify(state))
    /\ failedWrites' = IF throws THEN failedWrites + 1 ELSE failedWrites

(* removes the entry when the write fails *)
subscribe_removes(st, throws) ==
    /\ storage' = IF setItemThrows(throws) THEN NoItem
                  ELSE Item(JSON_stringify(st))
    /\ failedWrites' = IF throws THEN failedWrites + 1 ELSE failedWrites

(* store.subscribe's listener, run after every dispatch *)
subscribe(st, throws) ==
    /\ storage' = IF setItemThrows(throws) THEN storage
                  ELSE Item(JSON_stringify(st))
    /\ failedWrites' = IF throws THEN failedWrites + 1 ELSE failedWrites

(* Stands for undefined where a filter is compared with a filter name. *)
NoFilter == "undefined"

(* ListTask renders again with the store's new state; nothing is rendered  *)
(* when s.tasks.items is missing (items.length throws).                    *)
render(st) ==
    rendered' =
        IF "items" \notin DOMAIN st.tasks THEN <<>>
        ELSE filtered(st.tasks.items,
                      IF "filter" \in DOMAIN st.tasks
                      THEN st.tasks.filter ELSE NoFilter)

(* store.dispatch: the reducer, then the listener; an exception of the     *)
(* reducer escapes and leaves state and storage as they are.               *)
dispatch(type, payload, throws) ==
    IF reducerThrows(state.tasks, type)
    THEN /\ thrown' = "TypeError"
         /\ UNCHANGED <<state, storage, rendered, failedWrites>>
    ELSE /\ state' = [state EXCEPT !.tasks = reducer(@, type, payload)]
         /\ subscribe([state EXCEPT !.tasks = reducer(@, type, payload)], throws)
         /\ render([state EXCEPT !.tasks = reducer(@, type, payload)])
         /\ thrown' = ""

CanFail(throws) == throws => failedWrites < MaxFailedWrites

Dispatch_addTask(description, throws) ==
    /\ CanFail(throws)
    /\ "items" \in DOMAIN state.tasks => Len(state.tasks.items) < MaxItems
    /\ \E id \in nanoid :
        /\ dispatch("addTask", addTask_prepare(description, id).payload, throws)
        /\ generated' = generated \cup {id}
        /\ added' = IF reducerThrows(state.tasks, "addTask")
                    THEN added ELSE Append(added, id)
    /\ last' = Last("addTask", 0, description, "")

Dispatch_toggleDone(id, throws) ==
    /\ CanFail(throws)
    /\ dispatch("toggleDone", id, throws)
    /\ last' = Last("toggleDone", id, <<>>, "")
    /\ UNCHANGED <<generated, added>>

Dispatch_editTask(id, description, throws) ==
    /\ CanFail(throws)
    /\ dispatch("editTask", [id |-> id, description |-> description], throws)
    /\ last' = Last("editTask", id, description, "")
    /\ UNCHANGED <<generated, added>>

Dispatch_setFilter(value, throws) ==
    /\ CanFail(throws)
    /\ dispatch("setFilter", value, throws)
    /\ last' = Last("setFilter", 0, <<>>, value)
    /\ UNCHANGED <<generated, added>>

Dispatch_clearAll(throws) ==
    /\ CanFail(throws)
    /\ dispatch("clearAll", 0, throws)
    /\ last' = Last("clearAll", 0, <<>>, "")
    /\ UNCHANGED <<generated, added>>

(* The page is loaded again: the module is evaluated afresh. *)
Reload ==
    /\ state' = configureStore(persisted(storage))
    /\ render(configureStore(persisted(storage)))
    /\ last' = Last("reload", 0, <<>>, "")
    /\ thrown' = ""
    /\ UNCHANGED <<storage, generated, added, failedWrites>>

(* The first page load, with entry what localStorage holds. *)
Start(entry) ==
    /\ storage = entry
    /\ state = configureStore(persisted(entry))
    /\ rendered = IF "items" \notin DOMAIN state.tasks THEN <<>>
                  ELSE filtered(state.tasks.items,
                                IF "filter" \in DOMAIN state.tasks
                                THEN state.tasks.filter ELSE NoFilter)
    /\ generated = {}
    /\ last = Last("init", 0, <<>>, "")
    /\ added = <<>>
    /\ thrown = ""
    /\ failedWrites = 0

Init == Start(NoItem)

(* The texts handed to addTask and editTask where setItem may throw. *)
QuotaTexts == {<<"a">>, <<" ", "b">>}

Step(throws) ==
    \/ \E d \in QuotaTexts : Dispatch_addTask(d, throws)
    \/ \E id \in Ids : Dispatch_toggleDone(id, throws)
    \/ \E id \in Ids, d \in QuotaTexts : Dispatch_editTask(id, d, throws)
    \/ \E v \in FilterValues : Dispatch_setFilter(v, throws)
    \/ Dispatch_clearAll(throws)
    \/ Reload

(* localStorage has room: setItem does not throw. *)
Next ==
    \/ \E d \in Texts : Dispatch_addTask(d, FALSE)
    \/ \E id \in Ids : Dispatch_toggleDone(id, FALSE)
    \/ \E id \in Ids, d \in Texts : Dispatch_editTask(id, d, FALSE)
    \/ \E v \in FilterValues : Dispatch_setFilter(v, FALSE)
    \/ Dispatch_clearAll(FALSE)
    \/ Reload

Spec == Init /\ [][Next]_vars

(* What localStorage may hold at the first page load when the entry was    *)
(* not written by this store: nothing, a text that is not JSON, a denied   *)
(* storage, and the JSON texts {}, {"tasks":{}}, {"tasks":{"items":[]}}    *)
(* and {"tasks":{"filter":"done"}}.  A property that is null behaves as a  *)
(* missing one everywhere the code reads it, and is modelled as missing.   *)
StoredEntries ==
    { NoItem, Malformed, Denied,
      Item(<<>>),
      Item(<< <<"tasks", <<>> >> >>),
      Item(<< <<"tasks", << <<"items", <<>> >> >> >> >>),
      Item(<< <<"tasks", << <<"filter", "done">> >> >> >>) }

InitStored == \E entry \in StoredEntries : Start(entry)

SpecStored == InitStored /\ [][Next]_vars

(* localStorage may run out of room: setItem may throw. *)
NextQuota == \E throws \in BOOLEAN : Step(throws)

SpecQuota == Init /\ [][NextQuota]_vars

----------------------------------------------------------------------------
(* Properties *)

items == state.tasks.items
filter == state.tasks.filter

ids(arr) == {arr[i].id : i \in 1..Len(arr)}

\* C1: addTask of a text whose trimmed form is empty leaves items unchanged.
C1_addTask_blank_is_noop ==
    [][(last'.op = "addTask" /\ trim(last'.text) = <<>>)
        => state'.tasks.items = state.tasks.items]_vars

\* C2: addTask of a text s whose trimmed form is not empty makes items one
\* longer, puts the new task at index 0 with description s.trim(), isDone
\* false and an id no task had before, and keeps the old tasks after it.
C2_addTask_prepends ==
    [][(last'.op = "addTask" /\ trim(last'.text) # <<>>)
        => LET old == state.tasks.items
               new == state'.tasks.items
           IN  /\ Len(new) = Len(old) + 1
               /\ new[1].description = trim(last'.text)
               /\ new[1].isDone = FALSE
               /\ new[1].id \notin ids(old)
               /\ \A i \in 1..Len(old) : new[i + 1] = old[i]]_vars

C2_witness ==
    /\ last.op = "addTask"
    /\ trim(last.text) # <<>>
    /\ trim(last.text) # last.text
    /\ Len(items) >= 2

\* C3: no two entries of items have the same id.
C3_ids_unique ==
    \A i, j \in 1..Len(items) : i # j => items[i].id # items[j].id

C3_witness ==
    /\ Len(items) >= 2
    /\ last.op = "addTask"

C5_descriptions_trimmed ==
    \A i \in 1..Len(items) :
        /\ items[i].description # <<>>
        /\ trim(items[i].description) = items[i].description

\* C6: toggleDone(id) of an id in items, applied twice in a row, gives the
\* original state back.
C6_toggleDone_involution ==
    [][(last'.op = "toggleDone" /\ last'.id \in ids(state.tasks.items))
        => toggleDone_reducer(state'.tasks, [payload |-> last'.id])
             = state.tasks]_vars

C6_witness ==
    /\ last.op = "toggleDone"
    /\ \E i \in 1..Len(items) : items[i].id = last.id /\ items[i].isDone

\* C7: toggleDone(id) negates isDone of the task with that id and changes
\* nothing else: ids, descriptions, order, the other flags and the filter
\* stay; with no such task the state is unchanged.
C7_toggleDone_frame ==
    [][last'.op = "toggleDone"
        => LET old == state.tasks.items
               new == state'.tasks.items
           IN  /\ state'.tasks.filter = state.tasks.filter
               /\ Len(new) = Len(old)
               /\ \A i \in 1..Len(old) :
                    /\ new[i].id = old[i].id
                    /\ new[i].description = old[i].description
                    /\ new[i].isDone = IF old[i].id = last'.id
                                       THEN ~old[i].isDone
                                       ELSE old[i].isDone
               /\ last'.id \notin ids(old) => state' = state]_vars

C7_witness ==
    /\ last.op = "toggleDone"
    /\ Len(items) >= 2
    /\ \E i \in 1..Len(items) : items[i].id = last.id /\ items[i].isDone
    /\ \E i \in 1..Len(items) : items[i].id # last.id /\ ~items[i].isDone

\* C8: editTask(id, d) sets the description of the task with that id to
\* d.trim() when d.trim() is not empty; with d.trim() empty or no such task
\* the state is unchanged; ids, flags, other tasks, order and filter stay.
C8_editTask ==
    [][last'.op = "editTask"
        => LET old == state.tasks.items
               new == state'.tasks.items
               d   == trim(last'.text)
           IN  /\ state'.tasks.filter = state.tasks.filter
               /\ Len(new) = Len(old)
               /\ \A i \in 1..Len(old) :
                    /\ new[i].id = old[i].id
                    /\ new[i].isDone = old[i].isDone
                    /\ new[i].description = IF old[i].id = last'.id /\ d # <<>>
                                            THEN d
                                            ELSE old[i].description
               /\ (d = <<>> \/ last'.id \notin ids(old)) => state' = state]_vars

C8_witness ==
    /\ last.op = "editTask"
    /\ trim(last.text) # last.text
    /\ Len(items) >= 2
    /\ \E i \in 1..Len(items) :
        /\ items[i].id = last.id
        /\ items[i].description = trim(last.text)
        /\ items[i].isDone
    /\ \E i \in 1..Len(items) :
        /\ items[i].id # last.id
        /\ items[i].description # trim(last.text)

\* C9: clearAll leaves items empty and the filter as it was.
C9_clearAll ==
    [][last'.op = "clearAll"
        => /\ state'.tasks.items = <<>>
           /\ state'.tasks.filter = state.tasks.filter]_vars

C9_witness ==
    /\ last.op = "clearAll"
    /\ items = <<>>
    /\ filter = "done"
    /\ generated # {}

(* v holds exactly the tasks of arr whose isDone is want, in arr's order. *)
IsSelection(v, arr, want) ==
    LET sel(n) == {j \in 1..n : arr[j].isDone = want}
    IN  /\ Len(v) = Cardinality(sel(Len(arr)))
        /\ \A i \in sel(Len(arr)) : v[Cardinality(sel(i))] = arr[i]

\* C10: the rendered list is items when filter = all, the tasks with isDone
\* true in their order when filter = done, and those with isDone false in
\* their order when filter = not.
C10_filtered_view ==
    /\ filter = "all" => rendered = items
    /\ filter = "done" => IsSelection(rendered, items, TRUE)
    /\ filter = "not" => IsSelection(rendered, items, FALSE)

C10_witness ==
    /\ last.op = "setFilter"
    /\ last.value = "done"
    /\ Len(items) >= 2
    /\ Len(rendered) = 1
    /\ rendered[1] = items[2]

(* The place of id in the order the tasks were added. *)
age(id) == CHOOSE k \in 1..Len(added) : added[k] = id

NewestFirst(arr) ==
    \A i, j \in 1..Len(arr) : i < j => age(arr[i].id) > age(arr[j].id)

\* C11: items is newest-first: a task added later precedes every task
\* added earlier, and so it is in the rendered list; after two adds to the
\* empty store the second task is first.
C11_newest_first ==
    /\ NewestFirst(items)
    /\ NewestFirst(rendered)
    /\ (Len(added) = 2 /\ Len(items) = 2)
        => (items[1].id = added[2] /\ items[2].id = added[1])

C11_witness ==
    /\ Len(added) = 2
    /\ Len(items) = 2
    /\ items[1].description = <<"b">> /\ ~items[1].isDone
    /\ items[2].description = <<"a">> /\ items[2].isDone
    /\ items[2].id = added[1]
    /\ last.op = "setFilter"
    /\ filter = "done"
    /\ rendered = <<items[2]>>

DispatchOps == {"addTask", "toggleDone", "editTask", "setFilter", "clearAll"}

\* C12: after every dispatched action (the writes succeeding) the stored
\* entry is the serialization of the current store state, of the shape
\* { tasks: { items, filter } }; it is never that of an older state.
C12_write_through ==
    /\ last.op \in DispatchOps => storage.kind = "text"
    /\ storage.kind = "text" =>
        /\ storage.doc = JSON_stringify(state)
        /\ Keys(storage.doc) = {"tasks"}
        /\ Keys(Member(storage.doc, "tasks")) = {"items", "filter"}
        /\ Len(Member(Member(storage.doc, "tasks"), "items")) = Len(items)
        /\ Member(Member(storage.doc, "tasks"), "filter") = filter

C12_witness ==
    /\ last.op = "toggleDone"
    /\ storage.kind = "text"
    /\ \E i \in 1..Len(items) : items[i].id = last.id /\ items[i].isDone

\* C13: serializing the store state and rehydrating it at start-up gives
\* an equal store state: same items in the same order, same filter.
C13_round_trip ==
    /\ configureStore(persisted(Item(JSON_stringify(state)))) = state
    /\ storage.kind = "text" => configureStore(persisted(storage)) = state

C13_witness ==
    /\ last.op = "reload"
    /\ Len(items) = 2
    /\ items[1].isDone /\ ~items[2].isDone
    /\ items[1].description # items[2].description
    /\ filter = "not"

DefaultState == [tasks |-> [items |-> <<>>, filter |-> "all"]]

\* C14: with the entry missing, not parseable, or the storage throwing on
\* access, start-up does not fail and the store starts with items = [] and
\* filter = all.
C14_startup_fallback ==
    (last.op \in {"init", "reload"}
        /\ storage.kind \in {"null", "malformed", "denied"})
    => (state = DefaultState /\ thrown = "")

C14_witness ==
    /\ last.op = "reload"
    /\ storage.kind = "denied"
    /\ generated # {}
    /\ state = DefaultState

\* C15: a write that throws is swallowed: the store state is the one the
\* action produces, the stored entry keeps its value, nothing escapes; the
\* actions after it are applied and written as usual.
C15_failed_write_swallowed ==
    [][last'.op \in DispatchOps
        => /\ thrown' = ""
           /\ \E id \in Ids :
                state'.tasks =
                    reducer(state.tasks, last'.op,
                        IF last'.op = "addTask"
                        THEN addTask_prepare(last'.text, id).payload
                        ELSE IF last'.op = "toggleDone" THEN last'.id
                        ELSE IF last'.op = "editTask"
                        THEN [id |-> last'.id, description |-> last'.text]
                        ELSE last'.value)
           /\ IF failedWrites' # failedWrites
              THEN storage' = storage
              ELSE storage' = Item(JSON_stringify(state'))]_vars

C15_witness ==
    /\ failedWrites = 1
    /\ last.op = "addTask"
    /\ Len(items) = 2
    /\ storage.kind = "text"
    /\ Len(Member(Member(storage.doc, "tasks"), "items")) = 1

\* C16: every action applied in every reachable store state, rehydrated
\* ones included, gives a next state and never an error.
C16_transitions_total ==
    thrown = ""

IdSeq(arr) == [i \in 1..Len(arr) |-> arr[i].id]

\* C17: addTask, toggleDone, editTask and setFilter never shorten items,
\* keep every task in items under its id, and keep the relative order of
\* any two tasks.
C17_only_clearAll_removes ==
    [][last'.op \in {"addTask", "toggleDone", "editTask", "setFilter"}
        => LET old == IdSeq(state.tasks.items)
               new == IdSeq(state'.tasks.items)
           IN  /\ Len(new) >= Len(old)
               /\ \A i \in 1..Len(old) : \E k \in 1..Len(new) : new[k] = old[i]
               /\ \A i, j \in 1..Len(old) : i < j =>
                    \E k, l \in 1..Len(new) :
                        k < l /\ new[k] = old[i] /\ new[l] = old[j]]_vars

C17_witness ==
    /\ last.op = "editTask"
    /\ trim(last.text) # <<>>
    /\ Len(items) = 2
    /\ items[2].id = last.id
    /\ items[2].description = trim(last.text)
    /\ items[1].description # trim(last.text)

\* C18: setFilter(v) sets filter to v and leaves items as it is; addTask,
\* toggleDone and editTask leave filter as it is.
C18_fields_independent ==
    [][/\ last'.op = "setFilter"
            => /\ state'.tasks.filter = last'.value
               /\ state'.tasks.items = state.tasks.items
       /\ last'.op \in {"addTask", "toggleDone", "editTask"}
            => state'.tasks.filter = state.tasks.filter]_vars

C18_witness ==
    /\ last.op = "setFilter"
    /\ last.value = "not"
    /\ filter = "not"
    /\ Len(items) = 2
    /\ items[1].isDone

\* C19: when the stored text parses to an object without tasks, or whose
\* tasks has no items or no filter (missing or null), the store starts
\* with items = [] for the missing items and filter = all for the missing
\* filter.
C19_defaults_per_field ==
    (last.op \in {"init", "reload"} /\ storage.kind = "text")
    => LET doc == storage.doc
           t   == IF "tasks" \in Keys(doc) THEN Member(doc, "tasks") ELSE <<>>
       IN  /\ "items" \in DOMAIN state.tasks
           /\ "filter" \in DOMAIN state.tasks
           /\ "items" \notin Keys(t) => state.tasks.items = <<>>
           /\ "filter" \notin Keys(t) => state.tasks.filter = "all"

====
